---- MODULE Spec2Model ----
(***************************************************************************)
(* Model of SeeQR's backend IPC handlers (the channels module: select-db,  *)
(* drop-db, duplicate-db, import-db, run-query, generate-dummy-data).      *)
(*                                                                         *)
(* Every handler is an async function: it runs synchronously up to its     *)
(* next `await`, suspends, and resumes when the awaited database or        *)
(* process call settles.  One action of the model is one such resumption:  *)
(* the awaited call takes effect (or fails) and the handler's code runs    *)
(* on to its next await or to its end.  Handlers of different requests     *)
(* interleave at their awaits, as on Node's event loop.                    *)
(***************************************************************************)
EXTENDS Integers, Sequences, FiniteSets, TLC

\* Number of requests the renderer sends in one behaviour.
NumReq == 2

Reqs == 1..NumReq

\* Most tables one generate-dummy-data request asks for.
MaxTables == 1

\* Database names the renderer can name in a request.
Names == {"a", "b"}

\* The neutral connection of db.connectToDB('').
Neutral == ""

\* File paths offered to import-db, as sequences of characters.
FilePaths ==
    { <<"f", ".", "s", "q", "l">>,
      <<"f", ".", "T", "A", "R">>,
      <<"f", ".", "c", "s", "v">>,
      <<"f">> }

VARIABLES
    dbs,      \* names of the databases that exist on the server
    conn,     \* database the single active connection (pool) points at
    files,    \* temp dump files on disk: path -> request that wrote it, 0 = absent
    req,      \* per request: the channel and its payload
    pc,       \* per request: the await it is suspended on
    log,      \* per request: steps settled and signals sent to event.sender
    local,    \* per request: the handler's local variables
    result,   \* per request: how the handler's promise settled
    data,     \* the server's data: whose statements persisted, and the session's transaction
    gen,      \* one call of generateDummyData: its arguments, locals and outcome
    app       \* the renderer's query collections and its last call into lib/queries

vars == <<dbs, conn, files, req, pc, log, local, result, data, gen, app>>

----------------------------------------------------------------------------
\* Values

NoReq == [kind |-> "none", name |-> "", other |-> "", flag |-> FALSE, file |-> <<>>]

\* Locals of run-query: explainResults and returnedRows (TRUE = assigned),
\* `error` (Undefined until assigned), and the exception a try block left
\* pending while its finally block runs.
Undefined == "undefined"
NoLocal == [explainResults |-> FALSE, returnedRows |-> FALSE, error |-> Undefined,
            thrown |-> Undefined]

\* a collection of queries with no entry: {}
EmptyCollection == [k \in {} |-> <<>>]

\* App.state.queries and App.state.comparedQueries start empty; no call yet
NoApp ==
    [queries |-> EmptyCollection, comparedQueries |-> EmptyCollection,
     last |-> [op |-> "none", query |-> <<>>, isCompared |-> FALSE,
               input |-> EmptyCollection, given |-> EmptyCollection,
               returned |-> EmptyCollection, sameObject |-> FALSE, time |-> 0]]

\* no call of generateDummyData
NoCall ==
    [st |-> "none", tableInfo |-> <<>>, numRows |-> 0, foreign |-> {},
     columnNames |-> <<>>, dummyRecords |-> <<>>, row |-> <<>>, i |-> 0, j |-> 0,
     err |-> ""]

Pending == [st |-> "pending", err |-> ""]
Resolved == [st |-> "resolved", err |-> ""]
Rejected(msg) == [st |-> "rejected", err |-> msg]
\* a rejected promise nobody awaits or catches (ipcMain.on handlers)
Unhandled(msg) == [st |-> "unhandled", err |-> msg]

\* A settled step of a handler, or a signal sent to the renderer.
Step(op, ok) == [op |-> op, ok |-> ok, at |-> "-"]
\* A statement run through db.query on the active connection.
StepAt(op, ok, db) == [op |-> op, ok |-> ok, at |-> db]
Sig(channel) == Step(channel, TRUE)

\* Reading a log l.
DidIn(l, op) == \E i \in 1..Len(l) : l[i].op = op
OkIn(l, op) == \E i \in 1..Len(l) : l[i].op = op /\ l[i].ok
FailedIn(l, op) == \E i \in 1..Len(l) : l[i].op = op /\ ~l[i].ok
CountIn(l, op) == Cardinality({i \in 1..Len(l) : l[i].op = op})
\* position of the first occurrence of op in l (0 = none)
PosIn(l, op) ==
    IF DidIn(l, op)
    THEN CHOOSE i \in 1..Len(l) : l[i].op = op /\ \A j \in 1..(i - 1) : l[j].op # op
    ELSE 0

Did(r, op) == DidIn(log[r], op)
Ok(r, op) == OkIn(log[r], op)
Failed(r, op) == FailedIn(log[r], op)
Count(r, op) == CountIn(log[r], op)
Pos(r, op) == PosIn(log[r], op)

InFlight(r) == pc[r] \notin {"idle", "done"}

----------------------------------------------------------------------------
\* path.extname(filePath).toLowerCase()

LastDot(p) ==
    LET dots == {i \in 1..Len(p) : p[i] = "."}
    IN  IF dots = {} THEN 0 ELSE CHOOSE i \in dots : \A j \in dots : j <= i

\* path.extname: from the last "." to the end; empty when there is no "."
\* or the "." is the first character of the base name.
ExtName(p) ==
    IF LastDot(p) <= 1 THEN <<>> ELSE SubSeq(p, LastDot(p), Len(p))

LowerChar(c) ==
    CASE c = "S" -> "s" [] c = "Q" -> "q" [] c = "L" -> "l"
      [] c = "T" -> "t" [] c = "A" -> "a" [] c = "R" -> "r"
      [] c = "C" -> "c" [] c = "V" -> "v" [] c = "F" -> "f"
      [] OTHER -> c

ToLowerCase(p) == [i \in 1..Len(p) |-> LowerChar(p[i])]

ExtSql == <<".", "s", "q", "l">>
ExtTar == <<".", "t", "a", "r">>

\* the test of import-db: ext !== '.sql' && ext !== '.tar'
InvalidExtension(filePath) ==
    LET ext == ToLowerCase(ExtName(filePath))
    IN  ext # ExtSql /\ ext # ExtTar

\* path.resolve(os.homedir(), 'desktop', `temp_${newName}.sql`)
TempFilePath(newName) == <<"~", "desktop", "temp_", newName, ".sql">>

Paths == {TempFilePath(n) : n \in Names}

----------------------------------------------------------------------------
\* The database server and the file system, as the handlers see them.  A
\* call can always fail (server down, tool missing); it can succeed only
\* when the server or the file system allows it.

\* CREATE DATABASE name: fails when the name exists.
CreateOutcomes(name) == IF name \in dbs THEN {FALSE} ELSE {TRUE, FALSE}

\* DROP DATABASE name: fails when the name does not exist or a session
\* (the active connection) holds it open.
DropOutcomes(name) ==
    IF name \in dbs /\ conn # name THEN {TRUE, FALSE} ELSE {FALSE}

\* db.connectToDB(name): the neutral connection or an existing database.
ConnectOutcomes(name) ==
    IF name = Neutral \/ name \in dbs THEN {TRUE, FALSE} ELSE {FALSE}

\* pg_dump of sourceDb into a file.
DumpOutcomes(sourceDb) == IF sourceDb \in dbs THEN {TRUE, FALSE} ELSE {FALSE}

\* psql / pg_restore of a temp dump file into name.
RestoreOutcomes(name, path) ==
    IF name \in dbs /\ files[path] # 0 THEN {TRUE, FALSE} ELSE {FALSE}

\* psql / pg_restore of a user's file into name.
ImportOutcomes(name) == IF name \in dbs THEN {TRUE, FALSE} ELSE {FALSE}

\* A statement sent through db.query on the active connection: it fails
\* when the connection's database is gone or its transaction is aborted.
QueryOutcomes ==
    IF (conn = Neutral \/ conn \in dbs) /\ data.tx # "aborted" THEN {TRUE, FALSE} ELSE {FALSE}

\* The server running one statement of a script sent by request r.  `s` is
\* the session: what has persisted, the transaction's state, the effects
\* pending in the transaction, and whether an error stopped the script.
\* `ok` tells whether the user's statement runs without error.
RunStatement(stmt, s, r, ok) ==
    IF s.stopped THEN s
    ELSE CASE stmt = "BEGIN" -> [s EXCEPT !.tx = "open"]
           [] stmt = "ROLLBACK" -> [s EXCEPT !.tx = "none", !.pending = {}]
           [] stmt = "COMMIT" ->
                  [s EXCEPT !.tx = "none", !.pending = {},
                            !.persisted = IF s.tx = "open" THEN @ \cup s.pending ELSE @]
           [] OTHER ->
                  \* the user's statement, executed (EXPLAIN ANALYZE executes it too)
                  IF ~ok
                  THEN [s EXCEPT !.stopped = TRUE,
                                 !.tx = IF @ = "open" THEN "aborted" ELSE @]
                  ELSE IF s.tx = "open"
                  THEN [s EXCEPT !.pending = @ \cup {r}]
                  ELSE [s EXCEPT !.persisted = @ \cup {r}]

RECURSIVE RunStatements(_, _, _, _)
RunStatements(script, s, r, ok) ==
    IF script = <<>> THEN s
    ELSE RunStatements(Tail(script), RunStatement(Head(script), s, r, ok), r, ok)

\* db.query(script): the statements run in order on a session of the pool;
\* after an error the pool discards the session, which rolls back what its
\* transaction held.
RunScript(script, d, r, ok) ==
    LET s == RunStatements(script,
                           [persisted |-> d.persisted, tx |-> d.tx, pending |-> {},
                            stopped |-> FALSE],
                           r, ok)
    IN  IF s.stopped
        THEN [persisted |-> s.persisted, tx |-> "none"]
        ELSE [persisted |-> s.persisted, tx |-> s.tx]

\* fs.unlinkSync(path): throws when the file is not there.
UnlinkOutcomes(path) == IF files[path] # 0 THEN {TRUE, FALSE} ELSE {FALSE}

----------------------------------------------------------------------------
\* The server starts with database "a", the one the application is
\* connected to, and with or without a second database "b".
Init ==
    /\ dbs \in {{"a"}, {"a", "b"}}
    /\ conn = "a"
    /\ files = [p \in Paths |-> 0]
    /\ req = [r \in Reqs |-> NoReq]
    /\ pc = [r \in Reqs |-> "idle"]
    /\ log = [r \in Reqs |-> <<>>]
    /\ local = [r \in Reqs |-> NoLocal]
    /\ result = [r \in Reqs |-> Pending]
    /\ data = [persisted |-> {}, tx |-> "none"]
    /\ gen = NoCall
    /\ app = NoApp

\* Requests are numbered in the order the renderer sends them.
Arrives(r) == pc[r] = "idle" /\ \A q \in Reqs : q < r => pc[q] # "idle"

\* The handler of r runs on to its next await.
Goto(r, label, steps) ==
    /\ pc' = [pc EXCEPT ![r] = label]
    /\ log' = [log EXCEPT ![r] = @ \o steps]
    /\ UNCHANGED <<local, result>>

\* The handler of r ends: its promise settles.
Return(r, steps, outcome) ==
    /\ pc' = [pc EXCEPT ![r] = "done"]
    /\ log' = [log EXCEPT ![r] = @ \o steps]
    /\ result' = [result EXCEPT ![r] = outcome]
    /\ UNCHANGED local

\* a handler that first takes a per-database-name token
Begin_PerNameToken(r, payload, label) ==
    /\ Arrives(r)
    /\ \A q \in Reqs : InFlight(q) => req[q].name # payload.name
    /\ req' = [req EXCEPT ![r] = payload]
    /\ pc' = [pc EXCEPT ![r] = label]
    /\ log' = [log EXCEPT ![r] = <<Sig("async-started")>>]
    /\ UNCHANGED <<dbs, conn, files, local, result, data, gen, app>>

\* event.sender.send('async-started') and the code up to the first await.
Begin(r, payload, label) ==
    /\ Arrives(r)
    /\ req' = [req EXCEPT ![r] = payload]
    /\ pc' = [pc EXCEPT ![r] = label]
    /\ log' = [log EXCEPT ![r] = <<Sig("async-started")>>]
    /\ UNCHANGED <<dbs, conn, files, local, result, data, gen, app>>

\* `finally { event.sender.send('async-complete') }`
FinallyComplete == <<Sig("async-complete")>>

\* const dbsAndTables = await db.getLists(); event.sender.send('db-lists', ...)
\* as the last statement of a try block whose finally sends async-complete.
GetListsAndReturn(r, kind) ==
    /\ req[r].kind = kind
    /\ pc[r] = "getLists"
    /\ \E ok \in BOOLEAN :
          IF ok
          THEN Return(r, <<Step("getLists", TRUE), Sig("db-lists")>> \o FinallyComplete,
                      Resolved)
          ELSE Return(r, <<Step("getLists", FALSE)>> \o FinallyComplete,
                      Rejected("getLists failed"))
    /\ UNCHANGED <<dbs, conn, files, req, data, gen, app>>

----------------------------------------------------------------------------
\* ipcMain.handle('select-db')

SelectDbBegin(r, dbName) ==
    Begin(r, [NoReq EXCEPT !.kind = "select-db", !.name = dbName], "connect")

SelectDbStart(r) == \E dbName \in Names : SelectDbBegin(r, dbName)

SelectDbConnect(r) ==
    /\ req[r].kind = "select-db"
    /\ pc[r] = "connect"
    /\ \E ok \in ConnectOutcomes(req[r].name) :
          IF ok
          THEN /\ conn' = req[r].name
               /\ Goto(r, "getLists", <<Step("connect", TRUE)>>)
          ELSE /\ conn' = conn
               /\ Return(r, <<Step("connect", FALSE)>> \o FinallyComplete,
                         Rejected("connect failed"))
    /\ UNCHANGED <<dbs, files, req, data, gen, app>>

SelectDbGetLists(r) == GetListsAndReturn(r, "select-db")

----------------------------------------------------------------------------
\* ipcMain.handle('drop-db')

\* drop-db that does not look at currDB
DropDbBegin_NoDisconnect(r, dbName, currDB) ==
    Begin(r, [NoReq EXCEPT !.kind = "drop-db", !.name = dbName, !.flag = currDB], "drop")

DropDbBegin(r, dbName, currDB) ==
    Begin(r, [NoReq EXCEPT !.kind = "drop-db", !.name = dbName, !.flag = currDB],
          IF currDB THEN "connect" ELSE "drop")

DropDbStart(r) ==
    \E dbName \in Names, currDB \in BOOLEAN : DropDbBegin(r, dbName, currDB)

\* if (currDB) await db.connectToDB('')
DropDbDisconnect(r) ==
    /\ req[r].kind = "drop-db"
    /\ pc[r] = "connect"
    /\ \E ok \in ConnectOutcomes(Neutral) :
          IF ok
          THEN /\ conn' = Neutral
               /\ Goto(r, "drop", <<Step("connect", TRUE)>>)
          ELSE /\ conn' = conn
               /\ Return(r, <<Step("connect", FALSE)>> \o FinallyComplete,
                         Rejected("connect failed"))
    /\ UNCHANGED <<dbs, files, req, data, gen, app>>

\* await db.query(dropDBFunc(dbName))
DropDbDrop(r) ==
    /\ req[r].kind = "drop-db"
    /\ pc[r] = "drop"
    /\ \E ok \in DropOutcomes(req[r].name) :
          IF ok
          THEN /\ dbs' = dbs \ {req[r].name}
               /\ Goto(r, "getLists", <<Step("drop", TRUE)>>)
          ELSE /\ dbs' = dbs
               /\ Return(r, <<Step("drop", FALSE)>> \o FinallyComplete,
                         Rejected("drop failed"))
    /\ UNCHANGED <<conn, files, req, data, gen, app>>

DropDbGetLists(r) == GetListsAndReturn(r, "drop-db")

----------------------------------------------------------------------------
\* ipcMain.handle('duplicate-db')

\* withData only selects the dump command line (runFullCopyFunc or
\* runHollowCopyFunc); the handler never reads it again, so it is not kept.
DuplicateDbBegin(r, newName, sourceDb, withData) ==
    Begin(r, [NoReq EXCEPT !.kind = "duplicate-db", !.name = newName, !.other = sourceDb],
          "dump")

DuplicateDbStart(r) ==
    \E newName \in Names, sourceDb \in Names, withData \in BOOLEAN :
        DuplicateDbBegin(r, newName, sourceDb, withData)

\* a finally block whose catch of the unlink error leaves the block
DuplicateFinally_NoCompleteAfterUnlinkError(unlinked) ==
    <<Step("unlink", unlinked)>>
        \o (IF unlinked THEN <<Sig("async-complete")>> ELSE <<Sig("feedback")>>)

\* The finally block: fs.unlinkSync(tempFilePath) in its own try/catch, a
\* 'feedback' message when it throws, then 'async-complete'.
DuplicateFinally(unlinked) ==
    <<Step("unlink", unlinked)>>
        \o (IF unlinked THEN <<>> ELSE <<Sig("feedback")>>)
        \o <<Sig("async-complete")>>

\* a finally block that lets the unlink error escape
DuplicateSettle_UnlinkErrorEscapes(unlinked, outcome) ==
    IF unlinked THEN outcome ELSE Rejected("unlink failed")

\* The finally block neither returns nor throws: the promise settles as the
\* try block left it.
DuplicateSettle(unlinked, outcome) == outcome

\* Leave the try block of duplicate-db with `outcome` after `steps`.
DuplicateExit(r, steps, outcome) ==
    LET path == TempFilePath(req[r].name)
    IN  \E unlinked \in UnlinkOutcomes(path) :
            /\ files' = IF unlinked THEN [files EXCEPT ![path] = 0] ELSE files
            /\ Return(r, steps \o DuplicateFinally(unlinked),
                      DuplicateSettle(unlinked, outcome))

\* duplicate-db whose catch of the dump error does not rethrow
DuplicateDbDump_ErrorSwallowed(r) ==
    /\ req[r].kind = "duplicate-db"
    /\ pc[r] = "dump"
    /\ \E ok \in DumpOutcomes(req[r].other) :
          /\ files' = IF ok THEN [files EXCEPT ![TempFilePath(req[r].name)] = r] ELSE files
          /\ Goto(r, "create", <<Step("dump", ok)>>)
    /\ UNCHANGED <<dbs, conn, req, data, gen, app>>

\* await promExecute(dumpCmd)
DuplicateDbDump(r) ==
    /\ req[r].kind = "duplicate-db"
    /\ pc[r] = "dump"
    /\ \E ok \in DumpOutcomes(req[r].other) :
          IF ok
          THEN /\ files' = [files EXCEPT ![TempFilePath(req[r].name)] = r]
               /\ Goto(r, "create", <<Step("dump", TRUE)>>)
          ELSE DuplicateExit(r, <<Step("dump", FALSE)>>, Rejected("Failed to dump"))
    /\ UNCHANGED <<dbs, conn, req, data, gen, app>>

\* await db.query(createDBFunc(newName))
DuplicateDbCreate(r) ==
    /\ req[r].kind = "duplicate-db"
    /\ pc[r] = "create"
    /\ \E ok \in CreateOutcomes(req[r].name) :
          IF ok
          THEN /\ dbs' = dbs \cup {req[r].name}
               /\ files' = files
               /\ Goto(r, "restore", <<Step("create", TRUE)>>)
          ELSE /\ dbs' = dbs
               /\ DuplicateExit(r, <<Step("create", FALSE)>>,
                                Rejected("Failed to create Database"))
    /\ UNCHANGED <<conn, req, data, gen, app>>

\* duplicate-db whose catch block rethrows without dropping the database
DuplicateDbRestore_NoCleanup(r) ==
    /\ req[r].kind = "duplicate-db"
    /\ pc[r] = "restore"
    /\ \E ok \in RestoreOutcomes(req[r].name, TempFilePath(req[r].name)) :
          IF ok
          THEN /\ files' = files
               /\ Goto(r, "getLists", <<Step("restore", TRUE)>>)
          ELSE DuplicateExit(r, <<Step("restore", FALSE)>>,
                             Rejected("Failed to populate newly created database"))
    /\ UNCHANGED <<dbs, conn, req, data, gen, app>>

\* await promExecute(runSQLFunc(newName, tempFilePath)); its catch block
\* starts the cleanup: await db.query(dropDBFunc(newName))
DuplicateDbRestore(r) ==
    /\ req[r].kind = "duplicate-db"
    /\ pc[r] = "restore"
    /\ \E ok \in RestoreOutcomes(req[r].name, TempFilePath(req[r].name)) :
          IF ok
          THEN Goto(r, "getLists", <<Step("restore", TRUE)>>)
          ELSE Goto(r, "cleanup", <<Step("restore", FALSE)>>)
    /\ UNCHANGED <<dbs, conn, files, req, data, gen, app>>

\* the cleanup DROP settles: throw 'Failed to populate ...', or the DROP's
\* own error when it failed
DuplicateDbCleanup(r) ==
    /\ req[r].kind = "duplicate-db"
    /\ pc[r] = "cleanup"
    /\ \E ok \in DropOutcomes(req[r].name) :
          /\ dbs' = IF ok THEN dbs \ {req[r].name} ELSE dbs
          /\ DuplicateExit(r, <<Step("drop", ok)>>,
                           IF ok
                           THEN Rejected("Failed to populate newly created database")
                           ELSE Rejected("drop failed"))
    /\ UNCHANGED <<conn, req, data, gen, app>>

\* const dbsAndTableInfo = await db.getLists(); event.sender.send('db-lists')
DuplicateDbGetLists(r) ==
    /\ req[r].kind = "duplicate-db"
    /\ pc[r] = "getLists"
    /\ \E ok \in BOOLEAN :
          IF ok
          THEN DuplicateExit(r, <<Step("getLists", TRUE), Sig("db-lists")>>, Resolved)
          ELSE DuplicateExit(r, <<Step("getLists", FALSE)>>, Rejected("getLists failed"))
    /\ UNCHANGED <<dbs, conn, req, data, gen, app>>

----------------------------------------------------------------------------
\* ipcMain.handle('import-db')

ImportDbBegin(r, newDbName, filePath) ==
    Begin(r, [NoReq EXCEPT !.kind = "import-db", !.name = newDbName, !.file = filePath],
          "create")

ImportDbStart(r) ==
    \E newDbName \in Names, filePath \in FilePaths : ImportDbBegin(r, newDbName, filePath)

\* import-db that runs its cleanup DROP when CREATE DATABASE failed
ImportDbCreate_FailureDrops(r) ==
    /\ req[r].kind = "import-db"
    /\ pc[r] = "create"
    /\ \E ok \in CreateOutcomes(req[r].name) :
          IF ~ok
          THEN /\ dbs' = dbs
               /\ Goto(r, "cleanup", <<Step("create", FALSE)>>)
          ELSE /\ dbs' = dbs \cup {req[r].name}
               /\ IF InvalidExtension(req[r].file)
                  THEN Return(r, <<Step("create", TRUE), Step("extension", FALSE)>>
                                     \o FinallyComplete,
                              Rejected("Invalid file extension"))
                  ELSE Goto(r, "restore", <<Step("create", TRUE), Step("extension", TRUE)>>)
    /\ UNCHANGED <<conn, files, req, data, gen, app>>

\* await db.query(createDBFunc(newDbName)), then the extension test
ImportDbCreate(r) ==
    /\ req[r].kind = "import-db"
    /\ pc[r] = "create"
    /\ \E ok \in CreateOutcomes(req[r].name) :
          IF ~ok
          THEN /\ dbs' = dbs
               /\ Return(r, <<Step("create", FALSE)>> \o FinallyComplete,
                         Rejected("create failed"))
          ELSE /\ dbs' = dbs \cup {req[r].name}
               /\ IF InvalidExtension(req[r].file)
                  THEN Return(r, <<Step("create", TRUE), Step("extension", FALSE)>>
                                     \o FinallyComplete,
                              Rejected("Invalid file extension"))
                  ELSE Goto(r, "restore", <<Step("create", TRUE), Step("extension", TRUE)>>)
    /\ UNCHANGED <<conn, files, req, data, gen, app>>

\* await promExecute(restoreCmd); its catch block starts the cleanup DROP
ImportDbRestore(r) ==
    /\ req[r].kind = "import-db"
    /\ pc[r] = "restore"
    /\ \E ok \in ImportOutcomes(req[r].name) :
          IF ok
          THEN Goto(r, "getLists", <<Step("restore", TRUE)>>)
          ELSE Goto(r, "cleanup", <<Step("restore", FALSE)>>)
    /\ UNCHANGED <<dbs, conn, files, req, data, gen, app>>

\* the cleanup DROP settles: throw 'Failed to populate database', or the
\* DROP's own error when it failed
ImportDbCleanup(r) ==
    /\ req[r].kind = "import-db"
    /\ pc[r] = "cleanup"
    /\ \E ok \in DropOutcomes(req[r].name) :
          /\ dbs' = IF ok THEN dbs \ {req[r].name} ELSE dbs
          /\ Return(r, <<Step("drop", ok)>> \o FinallyComplete,
                    IF ok
                    THEN Rejected("Failed to populate database")
                    ELSE Rejected("drop failed"))
    /\ UNCHANGED <<conn, files, req, data, gen, app>>

ImportDbGetLists(r) == GetListsAndReturn(r, "import-db")

----------------------------------------------------------------------------
\* ipcMain.handle('run-query')

\* plan capture that runs EXPLAIN ANALYZE outside a transaction
ExplainScript_NoTransaction == <<"EXPLAIN ANALYZE">>

\* `BEGIN; EXPLAIN (FORMAT JSON, ANALYZE, VERBOSE, BUFFERS) ${sqlString}; ROLLBACK;`
ExplainScript == <<"BEGIN", "EXPLAIN ANALYZE", "ROLLBACK">>

\* db.query(sqlString)
QueryScript == <<"STATEMENT">>

\* The renderer passes as selectedDb the database it has selected, the one
\* the active connection points at when the request is sent.
RunQueryStart(r) ==
    \E targetDb \in Names :
        Begin(r, [NoReq EXCEPT !.kind = "run-query", !.name = targetDb, !.other = conn],
              IF conn # targetDb THEN "connect" ELSE "explain")

\* Entering the finally block: if (selectedDb !== targetDb) await
\* db.connectToDB(selectedDb), else await db.getLists()
RunQueryFinally(r) == IF req[r].other # req[r].name THEN "reconnect" ELSE "getLists"

\* if (selectedDb !== targetDb) await db.connectToDB(targetDb)
RunQueryConnect(r) ==
    /\ req[r].kind = "run-query"
    /\ pc[r] = "connect"
    /\ \E ok \in ConnectOutcomes(req[r].name) :
          /\ conn' = IF ok THEN req[r].name ELSE conn
          /\ pc' = [pc EXCEPT ![r] = IF ok THEN "explain" ELSE RunQueryFinally(r)]
          /\ log' = [log EXCEPT ![r] = Append(@, Step("connect", ok))]
          /\ local' = [local EXCEPT ![r].thrown = IF ok THEN @ ELSE "connect failed"]
    /\ UNCHANGED <<dbs, files, req, result, data, gen, app>>

\* await db.query(`BEGIN; EXPLAIN (...) ${sqlString}; ROLLBACK;`) in its try/catch
RunQueryExplain(r) ==
    /\ req[r].kind = "run-query"
    /\ pc[r] = "explain"
    /\ \E ok \in QueryOutcomes :
          /\ pc' = [pc EXCEPT ![r] = "query"]
          /\ log' = [log EXCEPT ![r] = Append(@, StepAt("explain", ok, conn))]
          /\ local' = [local EXCEPT ![r].explainResults = ok,
                                    ![r].error = IF ok THEN @
                                                 ELSE "Failed to get Execution Plan"]
          /\ data' = RunScript(ExplainScript, data, r, ok)
    /\ UNCHANGED <<dbs, conn, files, req, result, gen, app>>

\* direct execution whose catch keeps an earlier failure message
RunQueryQuery_KeepsFirstError(r) ==
    /\ req[r].kind = "run-query"
    /\ pc[r] = "query"
    /\ \E ok \in QueryOutcomes :
          /\ pc' = [pc EXCEPT ![r] = RunQueryFinally(r)]
          /\ log' = [log EXCEPT ![r] = Append(@, StepAt("query", ok, conn))]
          /\ local' = [local EXCEPT ![r].returnedRows = ok,
                                    ![r].error = IF ok \/ @ # Undefined THEN @
                                                 ELSE "query failed"]
          /\ data' = RunScript(QueryScript, data, r, ok)
    /\ UNCHANGED <<dbs, conn, files, req, result, gen, app>>

\* await db.query(sqlString) in its try/catch, then `return {...}`: the
\* finally block starts
RunQueryQuery(r) ==
    /\ req[r].kind = "run-query"
    /\ pc[r] = "query"
    /\ \E ok \in QueryOutcomes :
          /\ pc' = [pc EXCEPT ![r] = RunQueryFinally(r)]
          /\ log' = [log EXCEPT ![r] = Append(@, StepAt("query", ok, conn))]
          /\ local' = [local EXCEPT ![r].returnedRows = ok,
                                    ![r].error = IF ok THEN @ ELSE "query failed"]
          /\ data' = RunScript(QueryScript, data, r, ok)
    /\ UNCHANGED <<dbs, conn, files, req, result, gen, app>>

\* finally: await db.connectToDB(selectedDb); when it throws, the rest of
\* the finally block is skipped
RunQueryReconnect(r) ==
    /\ req[r].kind = "run-query"
    /\ pc[r] = "reconnect"
    /\ \E ok \in ConnectOutcomes(req[r].other) :
          IF ok
          THEN /\ conn' = req[r].other
               /\ Goto(r, "getLists", <<Step("reconnect", TRUE)>>)
          ELSE /\ conn' = conn
               /\ Return(r, <<Step("reconnect", FALSE)>>, Rejected("connect failed"))
    /\ UNCHANGED <<dbs, files, req, data, gen, app>>

\* finally: await db.getLists(); send 'db-lists'; send 'async-complete'.
\* The promise then settles as the try block left it.
RunQueryGetLists(r) ==
    /\ req[r].kind = "run-query"
    /\ pc[r] = "getLists"
    /\ \E ok \in BOOLEAN :
          IF ok
          THEN Return(r, <<Step("getLists", TRUE), Sig("db-lists"), Sig("async-complete")>>,
                      IF local[r].thrown # Undefined
                      THEN Rejected(local[r].thrown)
                      ELSE Resolved)
          ELSE Return(r, <<Step("getLists", FALSE)>>, Rejected("getLists failed"))
    /\ UNCHANGED <<dbs, conn, files, req, data, gen, app>>

----------------------------------------------------------------------------
\* ipcMain.on('generate-dummy-data')

GenerateStart(r) ==
    Begin(r, [NoReq EXCEPT !.kind = "generate-dummy-data"], "createKeyObject")

\* db.createKeyObject().then(...): the chain has no catch
GenerateKeyObject(r) ==
    /\ req[r].kind = "generate-dummy-data"
    /\ pc[r] = "createKeyObject"
    /\ \E ok \in BOOLEAN :
          IF ok
          THEN Goto(r, "getSchemaLayout", <<Step("createKeyObject", TRUE)>>)
          ELSE Return(r, <<Step("createKeyObject", FALSE)>>,
                      Unhandled("createKeyObject failed"))
    /\ UNCHANGED <<dbs, conn, files, req, data, gen, app>>

\* db.getSchemaLayout().then(...): the callback calls generateDummyData and
\* then writeCSVFile for each table it returned
GenerateSchemaLayout(r) ==
    /\ req[r].kind = "generate-dummy-data"
    /\ pc[r] = "getSchemaLayout"
    /\ \E ok \in BOOLEAN, generated \in BOOLEAN, tables \in 0..MaxTables :
          IF ~ok
          THEN Return(r, <<Step("getSchemaLayout", FALSE)>>,
                      Unhandled("getSchemaLayout failed"))
          ELSE IF ~generated
          THEN Return(r, <<Step("getSchemaLayout", TRUE), Step("generate", FALSE)>>,
                      Unhandled("generateDummyData failed"))
          ELSE IF tables = 0
          THEN Return(r, <<Step("getSchemaLayout", TRUE), Step("generate", TRUE)>>,
                      Resolved)
          ELSE Goto(r, "writeCSVFile",
                    <<Step("getSchemaLayout", TRUE), Step("generate", TRUE)>>)
    /\ UNCHANGED <<dbs, conn, files, req, data, gen, app>>

\* writeCSVFile(tableObject, ..., event): exports the tables and tells the
\* renderer that the work is complete
GenerateWriteCSV(r) ==
    /\ req[r].kind = "generate-dummy-data"
    /\ pc[r] = "writeCSVFile"
    /\ \E ok \in BOOLEAN :
          IF ok
          THEN Return(r, <<Step("writeCSVFile", TRUE), Sig("async-complete")>>, Resolved)
          ELSE Return(r, <<Step("writeCSVFile", FALSE), Sig("feedback"),
                           Sig("async-complete")>>, Resolved)
    /\ UNCHANGED <<dbs, conn, files, req, data, gen, app>>

----------------------------------------------------------------------------
Next ==
    \E r \in Reqs :
        \/ SelectDbStart(r)
        \/ SelectDbConnect(r)
        \/ SelectDbGetLists(r)
        \/ DropDbStart(r)
        \/ DropDbDisconnect(r)
        \/ DropDbDrop(r)
        \/ DropDbGetLists(r)
        \/ DuplicateDbStart(r)
        \/ DuplicateDbDump(r)
        \/ DuplicateDbCreate(r)
        \/ DuplicateDbRestore(r)
        \/ DuplicateDbCleanup(r)
        \/ DuplicateDbGetLists(r)
        \/ ImportDbStart(r)
        \/ ImportDbCreate(r)
        \/ ImportDbRestore(r)
        \/ ImportDbCleanup(r)
        \/ ImportDbGetLists(r)
        \/ RunQueryStart(r)
        \/ RunQueryConnect(r)
        \/ RunQueryExplain(r)
        \/ RunQueryQuery(r)
        \/ RunQueryReconnect(r)
        \/ RunQueryGetLists(r)
        \/ GenerateStart(r)
        \/ GenerateKeyObject(r)
        \/ GenerateSchemaLayout(r)
        \/ GenerateWriteCSV(r)

Spec == Init /\ [][Next]_vars

\* The database lifecycle handlers alone, with select-db moving the active
\* connection between the existing databases.
NextLifecycle ==
    \E r \in Reqs :
        \/ SelectDbStart(r)
        \/ SelectDbConnect(r)
        \/ SelectDbGetLists(r)
        \/ DropDbStart(r)
        \/ DropDbDisconnect(r)
        \/ DropDbDrop(r)
        \/ DropDbGetLists(r)
        \/ DuplicateDbStart(r)
        \/ DuplicateDbDump(r)
        \/ DuplicateDbCreate(r)
        \/ DuplicateDbRestore(r)
        \/ DuplicateDbCleanup(r)
        \/ DuplicateDbGetLists(r)
        \/ ImportDbStart(r)
        \/ ImportDbCreate(r)
        \/ ImportDbRestore(r)
        \/ ImportDbCleanup(r)
        \/ ImportDbGetLists(r)

SpecLifecycle == Init /\ [][NextLifecycle]_vars

\* Concurrent run-query requests.
NextQuery ==
    \E r \in Reqs :
        \/ RunQueryStart(r)
        \/ RunQueryConnect(r)
        \/ RunQueryExplain(r)
        \/ RunQueryQuery(r)
        \/ RunQueryReconnect(r)
        \/ RunQueryGetLists(r)

SpecQuery == Init /\ [][NextQuery]_vars

----------------------------------------------------------------------------
\* Properties

IsLifecycle(r) == req[r].kind \in {"drop-db", "duplicate-db", "import-db"}
Creates(r) == req[r].kind \in {"duplicate-db", "import-db"}

\* the step in which the handler of r ends and its promise settles
Returning(r) == pc[r] # "done" /\ pc'[r] = "done"

C2_UnsupportedImportLeavesNoDatabase ==
    [][\A r \in Reqs :
          (Returning(r) /\ req[r].kind = "import-db" /\ InvalidExtension(req[r].file))
              => /\ result'[r].st = "rejected"
                 /\ OkIn(log'[r], "create") => req[r].name \notin dbs']_vars

\* C3: a duplicate-db or import-db request that returns an error after its
\* CREATE DATABASE succeeded has issued DROP DATABASE, and the database does
\* not exist when it returns.
C3_FailureAfterCreateDrops ==
    [][\A r \in Reqs :
          (Returning(r) /\ Creates(r) /\ OkIn(log'[r], "create")
                /\ result'[r].st = "rejected")
              => /\ DidIn(log'[r], "drop")
                 /\ req[r].name \notin dbs']_vars

\* C4: every drop-db, duplicate-db and import-db request sends 'async-started'
\* exactly once, before anything else; sends no 'async-complete' while it is
\* in flight; and has sent 'async-complete' exactly once, as its last act,
\* when it has returned, whatever step failed.
C4_StartedCompleteBracket ==
    \A r \in Reqs :
        IsLifecycle(r) =>
            /\ Count(r, "async-started") = 1
            /\ log[r][1].op = "async-started"
            /\ InFlight(r) => Count(r, "async-complete") = 0
            /\ pc[r] = "done" =>
                  /\ Count(r, "async-complete") = 1
                  /\ log[r][Len(log[r])].op = "async-complete"

\* a duplicate-db returned after its cleanup DROP and its unlink both failed
C4_Witness ==
    \E r \in Reqs :
        /\ pc[r] = "done"
        /\ req[r].kind = "duplicate-db"
        /\ Failed(r, "restore")
        /\ Failed(r, "drop")
        /\ Failed(r, "unlink")
        /\ Count(r, "async-complete") = 1

\* C5: every run-query request that has returned has sent 'async-complete'.
C5_RunQueryCompletes ==
    \A r \in Reqs :
        (req[r].kind = "run-query" /\ pc[r] = "done") => Did(r, "async-complete")

\* C6: every generate-dummy-data request that has ended has sent
\* 'async-complete' or an error message ('feedback') to the renderer.
C6_GenerateReports ==
    \A r \in Reqs :
        (req[r].kind = "generate-dummy-data" /\ pc[r] = "done")
            => (Did(r, "async-complete") \/ Did(r, "feedback"))

\* C7: the EXPLAIN and the direct execution of every run-query request run
\* on the connection to that request's targetDb.
C7_QueriesRunOnTargetDb ==
    \A r \in Reqs :
        req[r].kind = "run-query" =>
            \A i \in 1..Len(log[r]) :
                log[r][i].op \in {"explain", "query"} => log[r][i].at = req[r].name

\* C8 (as stated): while a lifecycle request on a database name is in flight,
\* no later lifecycle request on the same name has executed a step.
C8_OneLifecycleOperationPerName ==
    \A r1, r2 \in Reqs :
        (r1 < r2 /\ IsLifecycle(r1) /\ IsLifecycle(r2) /\ InFlight(r1)
              /\ req[r1].name = req[r2].name)
            => Len(log[r2]) <= 1

\* the next step of the lifecycle handler of r
LifecycleStep(r) ==
    \/ DropDbDisconnect(r) \/ DropDbDrop(r) \/ DropDbGetLists(r)
    \/ DuplicateDbDump(r) \/ DuplicateDbCreate(r) \/ DuplicateDbRestore(r)
    \/ DuplicateDbCleanup(r) \/ DuplicateDbGetLists(r)
    \/ ImportDbCreate(r) \/ ImportDbRestore(r) \/ ImportDbCleanup(r)
    \/ ImportDbGetLists(r)

\* C8 (amended): lifecycle operations on one database name are not
\* serialized.  A drop-db, duplicate-db or import-db request for any name
\* starts as soon as it arrives, and every lifecycle request in flight can
\* take its next step, whatever other requests on that name are in flight.
C8_NeverHeldBack ==
    \A r \in Reqs :
        /\ Arrives(r) =>
              \A n \in Names :
                  /\ ENABLED DropDbBegin(r, n, FALSE)
                  /\ ENABLED DuplicateDbBegin(r, n, "a", TRUE)
                  /\ \A f \in FilePaths : ENABLED ImportDbBegin(r, n, f)
        /\ (IsLifecycle(r) /\ InFlight(r)) => ENABLED LifecycleStep(r)

\* two lifecycle requests on one name, both in flight, both past a step
C8_Witness ==
    \E r1, r2 \in Reqs :
        /\ r1 < r2
        /\ IsLifecycle(r1) /\ IsLifecycle(r2)
        /\ InFlight(r1) /\ InFlight(r2)
        /\ req[r1].name = req[r2].name
        /\ Len(log[r1]) >= 2 /\ Len(log[r2]) >= 2

\* C9: two duplicate-db requests in flight at the same time use different
\* temporary dump file paths.
C9_TempFilePathsDistinct ==
    \A r1, r2 \in Reqs :
        (r1 # r2 /\ req[r1].kind = "duplicate-db" /\ req[r2].kind = "duplicate-db"
              /\ InFlight(r1) /\ InFlight(r2))
            => TempFilePath(req[r1].name) # TempFilePath(req[r2].name)

\* how the try block of duplicate-db left the promise, read from its steps
DuplicateTryOutcome(l) ==
    IF FailedIn(l, "dump") THEN Rejected("Failed to dump")
    ELSE IF FailedIn(l, "create") THEN Rejected("Failed to create Database")
    ELSE IF FailedIn(l, "drop") THEN Rejected("drop failed")
    ELSE IF FailedIn(l, "restore")
         THEN Rejected("Failed to populate newly created database")
    ELSE IF FailedIn(l, "getLists") THEN Rejected("getLists failed")
    ELSE Resolved

\* C10: every duplicate-db request that has returned has attempted to delete
\* its temp file, once, after its last step and before 'async-complete'; a
\* failed deletion is followed by a 'feedback' message; and the request's
\* outcome is the one its steps produced, whether the deletion failed or not.
C10_TempFileCleanup ==
    \A r \in Reqs :
        (req[r].kind = "duplicate-db" /\ pc[r] = "done") =>
            /\ Count(r, "unlink") = 1
            /\ \A i \in 1..Len(log[r]) :
                  log[r][i].op \in {"dump", "create", "restore", "drop", "getLists"}
                      => i < Pos(r, "unlink")
            /\ Pos(r, "unlink") < Pos(r, "async-complete")
            /\ Failed(r, "unlink") =>
                  (Did(r, "feedback") /\ Pos(r, "unlink") < Pos(r, "feedback")
                      /\ Pos(r, "feedback") < Pos(r, "async-complete"))
            /\ Ok(r, "unlink") => ~Did(r, "feedback")
            /\ result[r] = DuplicateTryOutcome(log[r])

\* a successful duplication whose temp file could not be deleted
C10_Witness ==
    \E r \in Reqs :
        /\ pc[r] = "done"
        /\ req[r].kind = "duplicate-db"
        /\ Ok(r, "getLists")
        /\ Failed(r, "unlink")
        /\ result[r] = Resolved

\* C11: in every duplicate-db request the dump, the create and the restore
\* each run at most once, CREATE DATABASE is issued only after the dump
\* succeeded, and the restore only after the CREATE succeeded.
C11_DumpCreateRestoreInOrder ==
    \A r \in Reqs :
        req[r].kind = "duplicate-db" =>
            /\ Count(r, "dump") <= 1 /\ Count(r, "create") <= 1 /\ Count(r, "restore") <= 1
            /\ pc[r] \in {"create", "restore"} => Ok(r, "dump")
            /\ pc[r] = "restore" => Ok(r, "create")
            /\ Did(r, "create") => (Ok(r, "dump") /\ Pos(r, "dump") < Pos(r, "create"))
            /\ Did(r, "restore") =>
                  (Ok(r, "create") /\ Pos(r, "create") < Pos(r, "restore"))

\* a duplicate-db that ran all three steps, and one that stopped at its dump
C11_Witness ==
    /\ \E r \in Reqs :
          /\ req[r].kind = "duplicate-db"
          /\ Ok(r, "dump") /\ Ok(r, "create") /\ Ok(r, "restore")
    /\ \E r \in Reqs :
          /\ req[r].kind = "duplicate-db"
          /\ pc[r] = "done"
          /\ Failed(r, "dump")
          /\ ~Did(r, "create")

\* the step after which the handler of r awaits its DROP DATABASE
IssuesDrop(r) == pc[r] # "drop" /\ pc'[r] = "drop" /\ req'[r].kind = "drop-db"

\* C12: a drop-db request with currDB set issues DROP DATABASE only in the
\* step in which its switch to the neutral connection has succeeded: the
\* active connection then is the neutral one, not the database to drop.
C12_DisconnectBeforeDrop ==
    [][\A r \in Reqs :
          (IssuesDrop(r) /\ req'[r].flag)
              => /\ OkIn(log'[r], "connect")
                 /\ ~DidIn(log'[r], "drop")
                 /\ conn' = Neutral
                 /\ conn' # req'[r].name]_vars

\* a drop-db of the connected database that disconnected and then dropped it
C12_Witness ==
    \E r \in Reqs :
        /\ req[r].kind = "drop-db"
        /\ req[r].flag
        /\ Ok(r, "connect")
        /\ Ok(r, "drop")
        /\ Pos(r, "connect") < Pos(r, "drop")
        /\ req[r].name \notin dbs

----------------------------------------------------------------------------
\* generateDummyData(tableInfo, numRows) and its helpers

MaxCols == 3
MaxRows == 2

\* character_maximum_length: number | null
Null == -1

\* JavaScript values a cell can hold: numbers are written in decimal,
\* strings are sequences of characters
JsNumber(n) == [type |-> "number", num |-> n, str |-> <<>>]
JsString(s) == [type |-> "string", num |-> "", str |-> s]
JsUndefined == [type |-> "undefined", num |-> "", str |-> <<>>]

ColumnObj(name, type, maxLength, constraint, ftable, fcolumn) ==
    [column_name |-> name, data_type |-> type, character_maximum_length |-> maxLength,
     constraint_type |-> constraint, foreign_table |-> ftable, foreign_column |-> fcolumn]

\* the columns a table is made of
Columns ==
    {ColumnObj("id", "integer", Null, "PRIMARY KEY", "", "")}
    \cup {ColumnObj("owner", "integer", Null, "FOREIGN KEY", "people", fc) : fc \in {"_id", "id"}}
    \cup {ColumnObj("name", "character varying", n, "NONE", "", "") : n \in {Null, 1, 2, 3, 5}}
    \cup {ColumnObj("n", t, Null, "UNIQUE", "", "") : t \in {"smallint", "integer", "bigint"}}
    \cup {ColumnObj("d", "date", Null, "NONE", "", "")}
    \cup {ColumnObj("flag", "boolean", Null, "NONE", "", "")}
    \cup {ColumnObj("bio", "text", Null, "NONE", "", "")}

\* tableInfo: up to MaxCols columns with distinct names
Tables ==
    {t \in UNION {[1..n -> Columns] : n \in 1..MaxCols} :
        \A a, b \in DOMAIN t : t[a].column_name = t[b].column_name => a = b}

\* the rows of the referenced table, by the value of their key column
ForeignTables == {{}, {"10"}, {"10", "20"}}

Digit(d) ==
    CASE d = 0 -> "0" [] d = 1 -> "1" [] d = 2 -> "2" [] d = 3 -> "3" [] d = 4 -> "4"
      [] d = 5 -> "5" [] d = 6 -> "6" [] d = 7 -> "7" [] d = 8 -> "8" [] d = 9 -> "9"

\* Number.prototype.toString of a natural number
RECURSIVE NumberToString(_)
NumberToString(n) == IF n < 10 THEN <<Digit(n)>> ELSE NumberToString(n \div 10) \o <<Digit(n % 10)>>

\* Math.floor(Math.random() * n): Math.random() is in [0, 1)
RandomBelow(n) == 0..(n - 1)

\* getRandomInt(min, max): minimum inclusive, maximum exclusive; the two
\* ends of the range stand for the range
getRandomInt(min, max) == {min + k : k \in {0, max - min - 1} \cap RandomBelow(max - min)}

\* faker.random.alphaNumeric(length): `length` characters; one character
\* stands for the alphabet
AlphaNumeric(length) == [1..length -> {"a"}]

Quoted(s) == <<"'">> \o s \o <<"'">>

\* a zero-padded month or day
Padded(s) == IF Len(s) = 1 THEN <<"0">> \o s ELSE s

\* the length chosen for a 'character varying' value
VarcharLengths(maxLength) ==
    IF maxLength # Null /\ maxLength # 0 /\ maxLength < 3
    THEN RandomBelow(maxLength)
    ELSE {3}

\* generateDataByType that emits an unquoted word for an unhandled type
generateDataByType_DefaultsToText(columnObj) ==
    {[thrown |-> FALSE, val |-> JsString(<<"x">>)]}

\* generateDataByType(columnObj): the values it can return, or the throw;
\* the two ends of a number's range stand for the range
generateDataByType(columnObj) ==
    LET Value(v) == [thrown |-> FALSE, val |-> v]
        t == columnObj.data_type
    IN  CASE t = "smallint" -> {Value(JsNumber(n)) : n \in {"-32768", "32767"}}
          [] t = "integer" -> {Value(JsNumber(n)) : n \in {"-2147483648", "2147483647"}}
          [] t = "bigint" ->
                 {Value(JsNumber(n)) : n \in {"-9223372036854775808", "9223372036854775807"}}
          [] t = "character varying" ->
                 {Value(JsString(Quoted(str))) :
                     str \in UNION {AlphaNumeric(length) :
                                       length \in VarcharLengths(columnObj.character_maximum_length)}}
          [] t = "date" ->
                 {Value(JsString(Quoted(NumberToString(year) \o <<"/">> \o Padded(NumberToString(month))
                                        \o <<"/">> \o Padded(NumberToString(day))))) :
                     year \in getRandomInt(1500, 2020),
                     month \in getRandomInt(1, 13),
                     day \in getRandomInt(1, 29)}
          [] t = "boolean" ->
                 {Value(JsString(Quoted(b))) :
                     b \in {<<"t", "r", "u", "e">>, <<"f", "a", "l", "s", "e">>}}
          [] OTHER -> {[thrown |-> TRUE, val |-> JsUndefined]}

\* columnNames: tableInfo.reduce(...) keeping the columns that are no primary key
RECURSIVE columnNames(_)
columnNames(tableInfo) ==
    IF tableInfo = <<>> THEN <<>>
    ELSE IF Head(tableInfo).constraint_type # "PRIMARY KEY"
    THEN <<Head(tableInfo).column_name>> \o columnNames(Tail(tableInfo))
    ELSE columnNames(Tail(tableInfo))

\* What `SELECT ${foreignColumn} FROM ${foreignTable} TABLESAMPLE
\* BERNOULLI(50) LIMIT 1` can give: a rejection, or the rows; the sample
\* keeps each row of the table with probability one half
ForeignKeyQueryOutcomes(foreignColumn, foreign) ==
    {[ok |-> FALSE, rows |-> <<>>], [ok |-> TRUE, rows |-> <<>>]}
    \cup {[ok |-> TRUE, rows |-> <<[c \in {foreignColumn} |-> JsNumber(v)]>>] : v \in foreign}

\* new Error('There was an error while retrieving a valid foreign key.')
NoForeignKey == "There was an error while retrieving a valid foreign key."

\* row[key] of a result row
Field(row, key) == IF key \in DOMAIN row THEN row[key] ELSE JsUndefined

\* a cell of a row; `col` records the column the cell was generated for
Cell(columnObj, v) == [col |-> columnObj.column_name, val |-> v]

\* const columnNames = ...; const dummyRecords = [columnNames]; the loops start
GenerateDummyData ==
    /\ gen.st = "none"
    /\ \E tableInfo \in Tables, numRows \in 0..MaxRows, foreign \in ForeignTables :
          gen' = [st |-> "running", tableInfo |-> tableInfo, numRows |-> numRows,
                  foreign |-> foreign, columnNames |-> columnNames(tableInfo),
                  dummyRecords |-> <<columnNames(tableInfo)>>, row |-> <<>>,
                  i |-> 0, j |-> 1, err |-> ""]
    /\ UNCHANGED <<dbs, conn, files, req, pc, log, local, result, data, app>>

\* the column the inner loop is at
InnerLoopAt(constraints) ==
    /\ gen.st = "running"
    /\ gen.i < gen.numRows
    /\ gen.j <= Len(gen.tableInfo)
    /\ gen.tableInfo[gen.j].constraint_type \in constraints

\* a primary-key column that gets a generated value like any other
PrimaryKeyColumn_Generated ==
    /\ InnerLoopAt({"PRIMARY KEY"})
    /\ gen' = [gen EXCEPT !.row = Append(@, Cell(gen.tableInfo[gen.j], JsNumber("0"))),
                          !.j = @ + 1]
    /\ UNCHANGED <<dbs, conn, files, req, pc, log, local, result, data, app>>

\* neither branch of the inner loop's if / else if: nothing is pushed
PrimaryKeyColumn ==
    /\ InnerLoopAt({"PRIMARY KEY"})
    /\ gen' = [gen EXCEPT !.j = @ + 1]
    /\ UNCHANGED <<dbs, conn, files, req, pc, log, local, result, data, app>>

\* row.push(generateDataByType(tableInfo[j])), or its throw
DataColumn ==
    /\ gen.st = "running"
    /\ gen.i < gen.numRows
    /\ gen.j <= Len(gen.tableInfo)
    /\ gen.tableInfo[gen.j].constraint_type \notin {"PRIMARY KEY", "FOREIGN KEY"}
    /\ \E out \in generateDataByType(gen.tableInfo[gen.j]) :
          gen' = IF out.thrown
                 THEN [gen EXCEPT !.st = "thrown", !.err = "unhandled data type"]
                 ELSE [gen EXCEPT !.row = Append(@, Cell(gen.tableInfo[gen.j], out.val)),
                                  !.j = @ + 1]
    /\ UNCHANGED <<dbs, conn, files, req, pc, log, local, result, data, app>>

\* a foreign-key column that pushes whatever the result holds
ForeignKeyColumn_PushesFirstRow ==
    /\ InnerLoopAt({"FOREIGN KEY"})
    /\ \E foreignKey \in ForeignKeyQueryOutcomes(gen.tableInfo[gen.j].foreign_column,
                                                 gen.foreign) :
          gen' = IF ~foreignKey.ok
                 THEN [gen EXCEPT !.st = "error", !.err = "query failed"]
                 ELSE [gen EXCEPT !.row =
                                      Append(@, Cell(gen.tableInfo[gen.j],
                                                     IF Len(foreignKey.rows) > 0
                                                     THEN Field(foreignKey.rows[1], "_id")
                                                     ELSE JsUndefined)),
                                  !.j = @ + 1]
    /\ UNCHANGED <<dbs, conn, files, req, pc, log, local, result, data, app>>

\* await db.query(getForeignKeyQuery); push rows[0]['_id'], or return an
\* Error when there is no row or the query rejected
ForeignKeyColumn ==
    /\ InnerLoopAt({"FOREIGN KEY"})
    /\ \E foreignKey \in ForeignKeyQueryOutcomes(gen.tableInfo[gen.j].foreign_column,
                                                 gen.foreign) :
          gen' = IF foreignKey.ok /\ Len(foreignKey.rows) > 0
                 THEN [gen EXCEPT !.row = Append(@, Cell(gen.tableInfo[gen.j],
                                                         Field(foreignKey.rows[1], "_id"))),
                                  !.j = @ + 1]
                 ELSE [gen EXCEPT !.st = "error",
                                  !.err = IF foreignKey.ok THEN NoForeignKey
                                          ELSE "query failed"]
    /\ UNCHANGED <<dbs, conn, files, req, pc, log, local, result, data, app>>

\* the inner loop ends: dummyRecords.push(row); i += 1
PushRow ==
    /\ gen.st = "running"
    /\ gen.i < gen.numRows
    /\ gen.j > Len(gen.tableInfo)
    /\ gen' = [gen EXCEPT !.dummyRecords = Append(@, gen.row), !.row = <<>>,
                          !.i = @ + 1, !.j = 1]
    /\ UNCHANGED <<dbs, conn, files, req, pc, log, local, result, data, app>>

\* the outer loop ends: return dummyRecords
ReturnDummyRecords ==
    /\ gen.st = "running"
    /\ gen.i >= gen.numRows
    /\ gen' = [gen EXCEPT !.st = "table"]
    /\ UNCHANGED <<dbs, conn, files, req, pc, log, local, result, data, app>>

\* One call of generateDummyData, for every table, row count and content
\* of the referenced table.
InitGenerate == Init /\ dbs = {"a"}

NextGenerate ==
    \/ GenerateDummyData
    \/ PrimaryKeyColumn
    \/ DataColumn
    \/ ForeignKeyColumn
    \/ PushRow
    \/ ReturnDummyRecords

SpecGenerate == InitGenerate /\ [][NextGenerate]_vars

----------------------------------------------------------------------------
\* frontend/lib/queries: collections of queries, keyed by label and database

\* a label and a database name, as sequences of pieces of text; either
\* may itself contain " db:"
LabelsAndDbs ==
    { <<<<"a">>, <<"b">>>>,
      <<<<"a", " db:", "b">>, <<"b">>>>,
      <<<<"a">>, <<"b", " db:", "b">>>> }
SqlStrings == {"select * from tests", "drop table tests"}

\* planning and execution times of a plan
Times == {0, 1000, 2000}

\* executionPlan: absent, or a plan with its two times
ExecutionPlans ==
    {<<>>} \cup {<<[k \in {"Execution Time", "Planning Time"} |->
                       IF k = "Execution Time" THEN e ELSE p]>> : e, p \in Times}

QueryData(label, db, sqlString, executionPlan) ==
    [label |-> label, db |-> db, sqlString |-> sqlString, executionPlan |-> executionPlan]

\* the queries kept in collections
StoredQueries ==
    {QueryData(ld[1], ld[2], sql, <<>>) : ld \in LabelsAndDbs, sql \in SqlStrings}

\* the queries getTotalTime is asked about; <<>> is `undefined`
TimedQueries ==
    {<<>>} \cup {<<QueryData(<<"a">>, <<"b">>, "select * from tests", plan)>> :
                    plan \in ExecutionPlans}

\* `label:${query.label} db:${query.db}`
key(query) == <<"label:">> \o query.label \o <<" db:">> \o query.db

\* {...collection}: a new object with the same entries
Spread(collection) == [k \in DOMAIN collection |-> collection[k]]

\* collection[k] = query
Assign(collection, k, query) ==
    [x \in DOMAIN collection \cup {k} |-> IF x = k THEN query ELSE collection[x]]

\* delete collection[k]
Delete(collection, k) == [x \in DOMAIN collection \ {k} |-> collection[x]]

\* What a call leaves behind: the argument object as it is after the call,
\* the object returned, and whether they are one object.
CallResult(given, returned, sameObject) ==
    [given |-> given, returned |-> returned, sameObject |-> sameObject]

\* createQuery(queries, newQuery): ({...queries, [key(newQuery)]: newQuery})
createQuery(queries, newQuery) ==
    CallResult(queries, Assign(Spread(queries), key(newQuery), newQuery), FALSE)

\* deleteQuery that deletes from the collection it was given
deleteQuery_InPlace(queries, queryToDelete) ==
    CallResult(Delete(queries, key(queryToDelete)), Delete(queries, key(queryToDelete)), TRUE)

\* deleteQuery(queries, queryToDelete): copy, delete, return the copy
deleteQuery(queries, queryToDelete) ==
    LET tempQueries == Spread(queries)
    IN  CallResult(queries, Delete(tempQueries, key(queryToDelete)), FALSE)

\* setCompare(comparedQueries, query, isCompared)
setCompare(comparedQueries, query, isCompared) ==
    LET tempQueries == Spread(comparedQueries)
    IN  IF ~isCompared
        THEN CallResult(comparedQueries, Delete(tempQueries, key(query)), FALSE)
        ELSE CallResult(comparedQueries, Assign(tempQueries, key(query), query), FALSE)

\* getTotalTime that leaves the planning time out
getTotalTime_ExecutionOnly(query) ==
    IF query = <<>> \/ query[1].executionPlan = <<>> THEN 0
    ELSE query[1].executionPlan[1]["Execution Time"]

\* getTotalTime(query): if (!query?.executionPlan) return 0; else the sum
getTotalTime(query) ==
    IF query = <<>> \/ query[1].executionPlan = <<>> THEN 0
    ELSE query[1].executionPlan[1]["Execution Time"]
         + query[1].executionPlan[1]["Planning Time"]

\* the record of a call on a collection
Called_(op, query, isCompared, input, res) ==
    [op |-> op, query |-> <<query>>, isCompared |-> isCompared, input |-> input,
     given |-> res.given, returned |-> res.returned, sameObject |-> res.sameObject,
     time |-> 0]

\* setState({queries: createQuery(this.state.queries, newQuery)})
CreateQuery ==
    /\ \E newQuery \in StoredQueries :
          LET res == createQuery(app.queries, newQuery)
          IN  app' = [app EXCEPT !.queries = res.returned,
                                 !.last = Called_("createQuery", newQuery, FALSE,
                                                  app.queries, res)]
    /\ UNCHANGED <<dbs, conn, files, req, pc, log, local, result, data, gen>>

\* setState({queries: deleteQuery(this.state.queries, queryToDelete)})
DeleteQuery ==
    /\ \E queryToDelete \in StoredQueries :
          LET res == deleteQuery(app.queries, queryToDelete)
          IN  app' = [app EXCEPT !.queries = res.returned,
                                 !.last = Called_("deleteQuery", queryToDelete, FALSE,
                                                  app.queries, res)]
    /\ UNCHANGED <<dbs, conn, files, req, pc, log, local, result, data, gen>>

\* setState({comparedQueries: setCompare(this.state.comparedQueries, query, isCompared)})
SetCompare ==
    /\ \E query \in StoredQueries, isCompared \in BOOLEAN :
          LET res == setCompare(app.comparedQueries, query, isCompared)
          IN  app' = [app EXCEPT !.comparedQueries = res.returned,
                                 !.last = Called_("setCompare", query, isCompared,
                                                  app.comparedQueries, res)]
    /\ UNCHANGED <<dbs, conn, files, req, pc, log, local, result, data, gen>>

\* getTotalTime(query)
GetTotalTime ==
    /\ \E query \in TimedQueries :
          app' = [app EXCEPT !.last = [NoApp.last EXCEPT !.op = "getTotalTime",
                                                         !.query = query,
                                                         !.time = getTotalTime(query)]]
    /\ UNCHANGED <<dbs, conn, files, req, pc, log, local, result, data, gen>>

InitFrontend == Init /\ dbs = {"a"}

NextFrontend ==
    \/ CreateQuery
    \/ DeleteQuery
    \/ SetCompare
    \/ GetTotalTime

SpecFrontend == InitFrontend /\ [][NextFrontend]_vars

----------------------------------------------------------------------------
\* run-query: the two steps and the returned QueryResult

\* the handler of r evaluated `return {db, sqlString, returnedRows,
\* explainResults, error}`
ReachedReturn(r) == req[r].kind = "run-query" /\ Did(r, "query")

\* C13: in run-query the direct execution is attempted whether plan capture
\* succeeded or failed, and in each of the four combinations of outcomes the
\* request returns a QueryResult whose explainResults is absent exactly when
\* plan capture failed and whose returnedRows is absent exactly when direct
\* execution failed.
C13_QueryResultInAllCombinations ==
    \A r \in Reqs :
        /\ (req[r].kind = "run-query" /\ Did(r, "explain") /\ pc[r] = "done")
              => ReachedReturn(r)
        /\ (ReachedReturn(r) /\ pc[r] = "done")
              => /\ result[r] = Resolved
                 /\ local[r].explainResults = Ok(r, "explain")
                 /\ local[r].returnedRows = Ok(r, "query")

\* C14: the error field of the returned QueryResult is absent iff both plan
\* capture and direct execution succeeded; it is the direct execution's
\* message when that failed, and the plan-capture message when only plan
\* capture failed.
C14_ErrorField ==
    \A r \in Reqs :
        ReachedReturn(r) =>
            /\ (local[r].error = Undefined) <=> (Ok(r, "explain") /\ Ok(r, "query"))
            /\ Failed(r, "query") => local[r].error = "query failed"
            /\ (Failed(r, "explain") /\ Ok(r, "query"))
                  => local[r].error = "Failed to get Execution Plan"

C14_Witness ==
    /\ \E r \in Reqs :
          /\ ReachedReturn(r) /\ result[r] = Resolved
          /\ Failed(r, "explain") /\ Failed(r, "query")
          /\ local[r].error = "query failed"
    /\ \E r \in Reqs :
          /\ ReachedReturn(r) /\ result[r] = Resolved
          /\ Failed(r, "explain") /\ Ok(r, "query")
          /\ local[r].error = "Failed to get Execution Plan"

\* C15: plan capture never persists effects: after it, whether EXPLAIN
\* succeeded or failed, no transaction is open on the connection, and what
\* a run-query request persisted is what its direct execution persisted.
C15_PlanCaptureLeavesNoEffects ==
    /\ data.tx = "none"
    /\ \A r \in Reqs : r \in data.persisted <=> (req[r].kind = "run-query" /\ Ok(r, "query"))

C15_Witness ==
    /\ \E r \in Reqs :
          /\ req[r].kind = "run-query" /\ pc[r] = "done"
          /\ Ok(r, "explain") /\ Failed(r, "query") /\ r \notin data.persisted
    /\ \E r \in Reqs :
          /\ req[r].kind = "run-query" /\ pc[r] = "done"
          /\ Failed(r, "explain") /\ Ok(r, "query") /\ r \in data.persisted

----------------------------------------------------------------------------
\* generateDummyData: the returned table and the failures

Returned == gen.st = "table"
Called == gen.st # "none"

\* the column of tableInfo with a given name
ColumnNamed(name) ==
    CHOOSE c \in {gen.tableInfo[k] : k \in DOMAIN gen.tableInfo} : c.column_name = name

\* the positions of tableInfo that hold no primary key, and the k-th of them
NonPrimary == {m \in DOMAIN gen.tableInfo : gen.tableInfo[m].constraint_type # "PRIMARY KEY"}
NthNonPrimary(k) == CHOOSE m \in NonPrimary : Cardinality({x \in NonPrimary : x <= m}) = k

\* every cell generated so far, in finished rows and in the current one
Cells ==
    {gen.row[k] : k \in DOMAIN gen.row}
    \cup UNION {{gen.dummyRecords[n][k] : k \in DOMAIN gen.dummyRecords[n]} :
                   n \in 2..Len(gen.dummyRecords)}

\* C16: in a returned table columnNames is the non-primary-key column names
\* in their original order, there are exactly numRows rows, every row is as
\* long as columnNames with its k-th cell generated for the k-th column
\* name, and no cell was generated for a primary-key column.
C16_TableShape ==
    Returned =>
        LET names == gen.dummyRecords[1]
        IN  /\ Len(names) = Cardinality(NonPrimary)
            /\ \A k \in DOMAIN names : names[k] = gen.tableInfo[NthNonPrimary(k)].column_name
            /\ Len(gen.dummyRecords) = gen.numRows + 1
            /\ \A n \in 2..Len(gen.dummyRecords) :
                  /\ Len(gen.dummyRecords[n]) = Len(names)
                  /\ \A k \in DOMAIN names : gen.dummyRecords[n][k].col = names[k]
            /\ \A c \in Cells : ColumnNamed(c.col).constraint_type # "PRIMARY KEY"

C16_Witness ==
    /\ Returned
    /\ gen.numRows = 2
    /\ Len(gen.tableInfo) = 3
    /\ gen.tableInfo[2].constraint_type = "PRIMARY KEY"
    /\ gen.tableInfo[1].constraint_type = "FOREIGN KEY"
    /\ Len(gen.dummyRecords[3]) = 2

HasForeignKey == \E k \in DOMAIN gen.tableInfo : gen.tableInfo[k].constraint_type = "FOREIGN KEY"

\* C17: asked for at least one row of a table with a foreign-key column
\* whose referenced table is empty, generateDummyData ends with an error and
\* no table; no cell is ever produced for the foreign-key column.
C17_EmptyReferencedTableFails ==
    (Called /\ gen.numRows >= 1 /\ HasForeignKey /\ gen.foreign = {}) =>
        /\ ~Returned
        /\ gen.dummyRecords = <<gen.columnNames>>
        /\ \A c \in Cells : ColumnNamed(c.col).constraint_type # "FOREIGN KEY"

C17_Witness ==
    /\ gen.st = "error"
    /\ gen.numRows >= 1 /\ gen.foreign = {}
    /\ gen.tableInfo[gen.j].constraint_type = "FOREIGN KEY"
    /\ gen.j > 1

\* C18: every foreign-key cell of a returned table is the value of
\* foreignColumn in some row of foreignTable, whatever foreignColumn is
\* called.
C18_ForeignKeyCellsAreCandidates ==
    Returned =>
        \A c \in Cells :
            ColumnNamed(c.col).constraint_type = "FOREIGN KEY"
                => c.val \in {JsNumber(v) : v \in gen.foreign}

\* C19: a 'character varying' value, without its quotes, has length
\* maxLength when maxLength is defined and less than 3, and length 3
\* otherwise.
C19_VarcharLength ==
    \A c \in Cells :
        ColumnNamed(c.col).data_type = "character varying" =>
            LET maxLength == ColumnNamed(c.col).character_maximum_length
            IN  Len(c.val.str) - 2 = IF maxLength # Null /\ maxLength < 3 THEN maxLength ELSE 3

SupportedTypes == {"smallint", "integer", "bigint", "character varying", "date", "boolean"}

Unsupported(k) ==
    /\ gen.tableInfo[k].constraint_type \notin {"PRIMARY KEY", "FOREIGN KEY"}
    /\ gen.tableInfo[k].data_type \notin SupportedTypes

\* C20: asked for at least one row of a table with a non-key column of an
\* unsupported type, generateDummyData never returns a table, never gets
\* past that column and never finishes a row.
C20_UnsupportedTypeFails ==
    \A k \in DOMAIN gen.tableInfo :
        (Called /\ gen.numRows >= 1 /\ Unsupported(k)) =>
            /\ ~Returned
            /\ gen.j <= k
            /\ gen.dummyRecords = <<gen.columnNames>>

C20_Witness ==
    /\ gen.st = "thrown"
    /\ gen.numRows >= 1
    /\ Unsupported(gen.j)
    /\ Len(gen.row) >= 1

----------------------------------------------------------------------------
\* frontend/lib/queries: what a call returns and what it leaves alone

\* C21: getTotalTime returns 0 for an undefined query and for a query
\* without an execution plan, and otherwise the sum of the plan's
\* 'Execution Time' and 'Planning Time'.
C21_TotalTime ==
    app.last.op = "getTotalTime" =>
        LET query == app.last.query
        IN  /\ query = <<>> => app.last.time = 0
            /\ (query # <<>> /\ query[1].executionPlan = <<>>) => app.last.time = 0
            /\ (query # <<>> /\ query[1].executionPlan # <<>>) =>
                  \E e, p \in Times :
                      /\ query[1].executionPlan[1]["Execution Time"] = e
                      /\ query[1].executionPlan[1]["Planning Time"] = p
                      /\ app.last.time = e + p

C21_Witness ==
    /\ app.last.op = "getTotalTime"
    /\ app.last.query # <<>>
    /\ app.last.query[1].executionPlan # <<>>
    /\ app.last.query[1].executionPlan[1]["Execution Time"] = 1000
    /\ app.last.query[1].executionPlan[1]["Planning Time"] = 2000
    /\ app.last.time = 3000

\* the last call put its query into the collection / took it out
Puts == app.last.op = "createQuery" \/ (app.last.op = "setCompare" /\ app.last.isCompared)
Removes == app.last.op = "deleteQuery" \/ (app.last.op = "setCompare" /\ ~app.last.isCompared)

\* C22: createQuery, deleteQuery and setCompare leave the collection they
\* are given unchanged, and the collection they return differs from it only
\* at key(query): createQuery and setCompare(true) map the key to the query
\* (an existing entry is replaced, the size stays), deleteQuery and
\* setCompare(false) leave the key absent.
C22_OnlyTheKeyChanges ==
    (Puts \/ Removes) =>
        LET k == key(app.last.query[1])
            input == app.last.input
            returned == app.last.returned
        IN  /\ app.last.given = input
            /\ DOMAIN returned \ {k} = DOMAIN input \ {k}
            /\ \A x \in DOMAIN input \ {k} : returned[x] = input[x]
            /\ Puts => (k \in DOMAIN returned /\ returned[k] = app.last.query[1])
            /\ (Puts /\ k \in DOMAIN input)
                  => Cardinality(DOMAIN returned) = Cardinality(DOMAIN input)
            /\ Removes => k \notin DOMAIN returned

C22_Witness ==
    /\ app.last.op = "createQuery"
    /\ Cardinality(DOMAIN app.last.input) = 2
    /\ key(app.last.query[1]) \in DOMAIN app.last.input
    /\ app.last.input[key(app.last.query[1])].label # app.last.query[1].label
    /\ app.last.returned[key(app.last.query[1])] = app.last.query[1]
    /\ Cardinality(DOMAIN app.last.returned) = 2

----------------------------------------------------------------------------
\* the 'db-lists' snapshot

\* request r created or dropped a database
ChangedDatabases(r) == Ok(r, "create") \/ Ok(r, "drop")

\* C23: every drop-db, duplicate-db, import-db and run-query request during
\* which a database was created or dropped has sent 'db-lists' before its
\* 'async-complete' when it returns, on failure paths too; a run-query
\* request takes the snapshot only after switching back to selectedDb.
C23_SnapshotAfterChange ==
    \A r \in Reqs :
        /\ (pc[r] = "done" /\ IsLifecycle(r) /\ ChangedDatabases(r))
              => /\ Did(r, "db-lists")
                 /\ Did(r, "async-complete")
                 /\ Pos(r, "db-lists") < Pos(r, "async-complete")
        /\ (req[r].kind = "run-query" /\ Did(r, "db-lists") /\ req[r].other # req[r].name)
              => (Ok(r, "reconnect") /\ Pos(r, "reconnect") < Pos(r, "db-lists"))

----------------------------------------------------------------------------
\* C24: a duplicate-db or import-db request issues DROP DATABASE only after
\* its own CREATE DATABASE succeeded; when the create step fails the request
\* ends in error and has issued no DROP.
C24_DropOnlyAfterOwnCreate ==
    \A r \in Reqs :
        Creates(r) =>
            /\ Did(r, "drop") => (Ok(r, "create") /\ Pos(r, "create") < Pos(r, "drop"))
            /\ Failed(r, "create") =>
                  /\ pc[r] = "done"
                  /\ result[r].st = "rejected"
                  /\ ~Did(r, "drop")

\* both kinds of request failed to create a database that exists, which is
\* still there
C24_Witness ==
    \E r, q \in Reqs :
        /\ req[r].kind = "duplicate-db" /\ req[q].kind = "import-db"
        /\ Failed(r, "create") /\ Failed(q, "create")
        /\ pc[r] = "done" /\ pc[q] = "done"
        /\ req[r].name \in dbs /\ req[q].name \in dbs

----------------------------------------------------------------------------
\* C25: when the referenced table holds at least one row, generateDummyData
\* never ends with the no-foreign-key error: the sampling query always
\* yields a candidate row.
C25_SampleNeverEmpty ==
    (gen.st = "error" /\ gen.foreign # {}) => gen.err # NoForeignKey

=============================================================================
